---- MODULE Spec2Model ----
(***************************************************************************)
(* Model of reporting_pool.ReportingPool (src/reporting_pool/              *)
(* reporting_pool.py): the orchestrator start(), the worker wrappers run   *)
(* by multiprocessing.Pool.starmap, and the reporting process that polls   *)
(* the shared completion list.                                             *)
(*                                                                         *)
(* Job indices are 0-based as in the code; slot i_job of a list is element *)
(* i_job + 1 of the sequence that models it.                               *)
(*                                                                         *)
(* multiprocessing.Pool is the standard library's: starmap cuts the        *)
(* argument list into chunks of ceil(n / (4 * processes)) jobs, hands the  *)
(* chunks to idle workers in order, stores each result at its own index    *)
(* and returns (or re-raises the first exception) once every chunk has     *)
(* ended.  The bounds keep n <= 4 * processes, so a chunk is one job.      *)
(***************************************************************************)
EXTENDS Integers, Sequences, FiniteSets, TLC

\* ------------------------------------------------------------------ bounds
MaxJobs == 2        \* len(p_args) ranges over 0..MaxJobs
MaxProcs == 2       \* processes ranges over 1..MaxProcs
MaxReports == 2     \* the count of printed reports saturates here
MaxSleeps == 2      \* the reporter's clock saturates after this many sleeps

\* `res = None` of the failure-tracking wrapper; func returns squares >= 0.
None == -1

VARIABLES
    p_args,             \* self.p_args: sequence of job arguments
    raises,             \* the inputs for which self.func raises an Exception
    processes,          \* self.processes
    report_rate,        \* self.report_rate
    report_on_change,   \* self.report_on_change
    track_failures,     \* self.track_failures
    pc,                 \* position of start()
    shared_completion_list,
    rep,                \* the reporting process
    rep2,               \* second reporting process (paired comparison only)
    tasks,              \* per job: where the pool's task for it stands
    pool,               \* starmap bookkeeping: next task, tasks left, success,
                        \* and whether the tasks ended in submission order
    results,            \* the MapResult's value list
    res,                \* what start() returns
    failed_i_jobs,      \* self.failed_i_jobs
    diagnostics         \* what the wrappers have recorded about failed jobs

vars == <<p_args, raises, processes, report_rate, report_on_change, track_failures, pc,
          shared_completion_list, rep, rep2, tasks, pool, results, res,
          failed_i_jobs, diagnostics>>

config == <<p_args, raises, processes, report_rate, report_on_change,
           track_failures>>

\* ------------------------------------------------------------- helpers
RECURSIVE SeqSum(_)
SeqSum(s) == IF s = <<>> THEN 0 ELSE Head(s) + SeqSum(Tail(s))

SeqRange(s) == {s[k] : k \in 1..Len(s)}

\* Python's all()
All(bs) == \A k \in 1..Len(bs) : bs[k]

NJobs == Len(p_args)
i_jobs == 0..(NJobs - 1)

\* The user function, as the repository's test functions: it squares its
\* input, and raises an Exception for the inputs of a predicate (the
\* multiples of 6 in _reporting_pool_test_func_wf, none in ..._func_wof).
FuncRaises(v) == v \in raises
func(v) == v * v

Terminal(x) == x \in {"S", "F"}

\* --------------------------------------------------------------- reports
\* est_time_left = 'NaN'
NaN == -1

NoReport == [error |-> "none", completed |-> 0, total |-> 0, percent |-> 0,
             time_passed |-> 0, est_time_left |-> NaN, list |-> <<>>]

\* '{:.2%}' of completed/total, in hundredths of a percent (rounded).
Percent(completed, total) == (2 * completed * 10000 + total) \div (2 * total)

\* '{:.2f}' of time_passed / n_completed * remaining, in hundredths.
EstTimeLeft(time_passed, n_completed, remaining) ==
    (2 * time_passed * remaining * 100 + n_completed) \div (2 * n_completed)

\* time_passed is counted in sleep periods.
print_report(done_list, scl, time_passed) ==
    LET ints == [k \in 1..Len(done_list) |-> IF done_list[k] THEN 1 ELSE 0]
        n_completed == SeqSum(ints)
        est_time_left ==
            IF n_completed = 0 THEN NaN
            ELSE EstTimeLeft(time_passed, n_completed, Len(ints) - n_completed)
    IN  IF Len(ints) = 0
        THEN [error |-> "ZeroDivisionError", completed |-> n_completed,
              total |-> 0, percent |-> 0, time_passed |-> time_passed,
              est_time_left |-> est_time_left, list |-> <<>>]
        ELSE [error |-> "", completed |-> n_completed, total |-> Len(ints),
              percent |-> Percent(n_completed, Len(ints)),
              time_passed |-> time_passed, est_time_left |-> est_time_left,
              list |-> scl]

\* ------------------------------------------------------ reporting process
RepOff == [pc |-> "off", done_list |-> <<>>, done_list_prev |-> <<>>,
           tmp |-> <<>>, n_reports |-> 0, last |-> NoReport, sleeps |-> 0]

\* What the process has printed: how many reports (saturating) and the last.
Printed(r, report) ==
    [r EXCEPT !.n_reports = IF @ < MaxReports THEN @ + 1 ELSE @,
              !.last = report]

\* time.sleep(sleep_period): one more period on the reporter's clock.
Slept(n) == IF n < MaxSleeps THEN n + 1 ELSE n

AllFalse(n) == [k \in 1..n |-> FALSE]

\* sleep_period = 1./report_rate raises ZeroDivisionError for a rate of 0.
SleepPeriodFails == report_rate = 0

\* time.sleep(sleep_period) raises ValueError for a negative period.
SleepFails == report_rate < 0

\* From process start to the first test of the while loop.
periodic_reporting_process_begin(r, scl) ==
    IF SleepPeriodFails
    THEN [r EXCEPT !.pc = "crashed"]
    ELSE [r EXCEPT !.pc = "loop", !.done_list = AllFalse(Len(scl))]

\* An on-change reporter that takes a snapshot before its first report.
on_change_reporting_process_begin_snapshot(r, scl) ==
    LET r0 == [r EXCEPT !.done_list = [k \in 1..Len(scl) |-> Terminal(scl[k])],
                        !.done_list_prev = AllFalse(Len(scl))]
        report == print_report(r0.done_list, scl, r0.sleeps)
    IN  IF SleepPeriodFails
        THEN [r EXCEPT !.pc = "crashed"]
        ELSE IF report.error # ""
        THEN [r0 EXCEPT !.pc = "crashed"]
        ELSE [Printed(r0, report) EXCEPT !.pc = "loop"]

on_change_reporting_process_begin(r, scl) ==
    LET r0 == [r EXCEPT !.done_list = AllFalse(Len(scl)),
                        !.done_list_prev = AllFalse(Len(scl))]
        report == print_report(r0.done_list, scl, r0.sleeps)
    IN  IF SleepPeriodFails
        THEN [r EXCEPT !.pc = "crashed"]
        ELSE IF report.error # ""
        THEN [r0 EXCEPT !.pc = "crashed"]
        ELSE [Printed(r0, report) EXCEPT !.pc = "loop"]

\* One test of the while loop and, if it is entered, the body up to the sleep.
periodic_reporting_process_loop(r, scl) ==
    IF All(r.done_list)
    THEN [r EXCEPT !.pc = "done"]
    ELSE LET r1 == Printed(r, print_report(r.done_list, scl, r.sleeps))
         IN  IF SleepFails
             THEN [r1 EXCEPT !.pc = "crashed"]
             ELSE [r1 EXCEPT !.pc = "sleep", !.tmp = <<>>, !.sleeps = Slept(@)]

on_change_reporting_process_loop(r, scl) ==
    IF All(r.done_list)
    THEN [r EXCEPT !.pc = "done"]
    ELSE LET changed == ~ \A k \in 1..Len(r.done_list) :
                              r.done_list[k] = r.done_list_prev[k]
             r1 == IF changed
                   THEN [Printed(r, print_report(r.done_list, scl, r.sleeps))
                           EXCEPT !.done_list_prev = r.done_list]
                   ELSE r
         IN  IF SleepFails
             THEN [r1 EXCEPT !.pc = "crashed"]
             ELSE [r1 EXCEPT !.pc = "sleep", !.tmp = <<>>, !.sleeps = Slept(@)]

\* A snapshot that takes every slot that is no longer queued for done.
snapshot_read_not_queued(r, scl) ==
    LET t == Append(r.tmp, scl[Len(r.tmp) + 1] # "Q")
    IN  IF Len(t) = Len(scl)
        THEN [r EXCEPT !.done_list = t, !.tmp = <<>>, !.pc = "loop"]
        ELSE [r EXCEPT !.tmp = t]

\* After the sleep: the list comprehension reads the proxy one slot per
\* request; the read of the last slot completes done_list.
snapshot_read(r, scl) ==
    LET t == Append(r.tmp, Terminal(scl[Len(r.tmp) + 1]))
    IN  IF Len(t) = Len(scl)
        THEN [r EXCEPT !.done_list = t, !.tmp = <<>>, !.pc = "loop"]
        ELSE [r EXCEPT !.tmp = t]

\* ------------------------------------------------------- worker wrappers
SetSlot(scl, i_job, x) == [scl EXCEPT ![i_job + 1] = x]

\* A wrapper that forgets to mark its job as running.
function_wrapper_enter_unmarked(scl, i_job) == scl

\* First statement of either wrapper.
function_wrapper_enter(scl, i_job) == SetSlot(scl, i_job, "R")

\* A strict wrapper that swallows the exception of the user function.
function_wrapper_swallowing(scl, i_job, v) ==
    IF FuncRaises(v)
    THEN [scl |-> scl, res |-> None, exc |-> FALSE, recorded |-> {}]
    ELSE [scl |-> SetSlot(scl, i_job, "S"), res |-> func(v), exc |-> FALSE, recorded |-> {}]

\* The rest of _function_wrapper: the call and what follows it.
function_wrapper(scl, i_job, v) ==
    IF FuncRaises(v)
    THEN [scl |-> scl, res |-> None, exc |-> TRUE, recorded |-> {}]
    ELSE [scl |-> SetSlot(scl, i_job, "S"), res |-> func(v), exc |-> FALSE, recorded |-> {}]

\* A tracking wrapper that marks the failure but lets the exception through.
function_wrapper_track_failure_reraising(scl, i_job, v) ==
    IF FuncRaises(v)
    THEN [scl |-> SetSlot(scl, i_job, "F"), res |-> None, exc |-> TRUE, recorded |-> {}]
    ELSE [scl |-> SetSlot(scl, i_job, "S"), res |-> func(v), exc |-> FALSE, recorded |-> {}]

\* A tracking wrapper that never hands the function's value back.
function_wrapper_track_failure_no_return(scl, i_job, v) ==
    IF FuncRaises(v)
    THEN [scl |-> SetSlot(scl, i_job, "F"), res |-> None, exc |-> FALSE, recorded |-> {}]
    ELSE [scl |-> SetSlot(scl, i_job, "S"), res |-> None, exc |-> FALSE, recorded |-> {}]

\* A tracking wrapper that marks the failure in the first slot of the list.
function_wrapper_track_failure_first_slot(scl, i_job, v) ==
    IF FuncRaises(v)
    THEN [scl |-> SetSlot(scl, 0, "F"), res |-> None, exc |-> FALSE, recorded |-> {}]
    ELSE [scl |-> SetSlot(scl, i_job, "S"), res |-> func(v), exc |-> FALSE, recorded |-> {}]

\* The rest of _function_wrapper_track_failure.  On a failure the message
\* 'Job #i_job failed with error: ...' is built in the local s and dropped
\* at the return: nothing is recorded.
function_wrapper_track_failure(scl, i_job, v) ==
    IF FuncRaises(v)
    THEN [scl |-> SetSlot(scl, i_job, "F"), res |-> None, exc |-> FALSE, recorded |-> {}]
    ELSE [scl |-> SetSlot(scl, i_job, "S"), res |-> func(v), exc |-> FALSE, recorded |-> {}]

fwf(scl, i_job, v) ==
    IF track_failures
    THEN function_wrapper_track_failure(scl, i_job, v)
    ELSE function_wrapper(scl, i_job, v)

\* Results kept in the order in which the tasks end, as imap_unordered does.
StoreResultUnordered(rs, i_job, x) ==
    LET filled == Cardinality({k \in 1..Len(rs) : rs[k] # None})
    IN  [rs EXCEPT ![filled + 1] = x]

\* The MapResult stores a finished task's value at the task's own index.
StoreResult(rs, i_job, x) == [rs EXCEPT ![i_job + 1] = x]

\* The failure scan of start().
RECURSIVE ScanFailures(_, _)
ScanFailures(scl, i) ==
    IF i >= Len(scl) THEN <<>>
    ELSE (IF scl[i + 1] = "F" THEN <<i>> ELSE <<>>) \o ScanFailures(scl, i + 1)

\* ------------------------------------------------------------------ Init
\* p_args = [[v] for v in range(n)], as in the repository's examples.
RangeArgs(n) == [k \in 1..n |-> k - 1]

\* Every start() begins like this, whatever the arguments of __init__.
InitStart ==
    /\ p_args \in {RangeArgs(n) : n \in 0..MaxJobs}
    /\ raises \in SUBSET SeqRange(p_args)
    /\ track_failures \in BOOLEAN
    /\ pc = "new"
    /\ shared_completion_list = <<>>
    /\ rep = RepOff
    /\ rep2 = RepOff
    /\ tasks = <<>>
    /\ pool = [next |-> 0, left |-> 0, success |-> TRUE, inorder |-> TRUE]
    /\ results = <<>>
    /\ res = <<>>
    /\ failed_i_jobs = <<>>
    /\ diagnostics = {}

\* A pool of at least one process and a positive report rate.
InitCommon ==
    /\ InitStart
    /\ processes \in 1..MaxProcs
    /\ report_rate = 1

Init ==
    /\ InitCommon
    /\ report_on_change \in BOOLEAN

\* --------------------------------------------------------- start() steps
\* A list that is one slot short.
InitialListShort(n) == [k \in 1..(n - 1) |-> "Q"]

\* manager.list() after 'Q' was appended for each of the n jobs.
InitialList(n) == [k \in 1..n |-> "Q"]

\* manager.list() and the loop appending 'Q' per job.
start_build ==
    /\ pc = "new"
    /\ shared_completion_list' = InitialList(NJobs)
    /\ pc' = "built"
    /\ UNCHANGED <<config, rep, rep2, tasks, pool, results, res, failed_i_jobs,
                   diagnostics>>

\* report_process.start()
start_report_process ==
    /\ pc = "built"
    /\ rep' = [rep EXCEPT !.pc = "begin"]
    /\ pc' = "reporting"
    /\ UNCHANGED <<config, shared_completion_list, rep2, tasks, pool, results,
                   res, failed_i_jobs,
                   diagnostics>>

\* Pool(processes) is entered and starmap submits every job.
start_pool ==
    /\ pc = "reporting"
    /\ processes >= 1
    /\ tasks' = [k \in 1..NJobs |-> "queued"]
    /\ pool' = [next |-> 0, left |-> NJobs, success |-> TRUE, inorder |-> TRUE]
    /\ results' = [k \in 1..NJobs |-> None]
    /\ pc' = "starmap"
    /\ UNCHANGED <<config, shared_completion_list, rep, rep2, res, failed_i_jobs,
                   diagnostics>>

\* starmap returns the results in submission order.
starmap_return ==
    /\ pc = "starmap"
    /\ pool.left = 0
    /\ pool.success
    /\ res' = results
    /\ pc' = "join"
    /\ UNCHANGED <<config, shared_completion_list, rep, rep2, tasks, pool,
                   results, failed_i_jobs,
                   diagnostics>>

\* starmap re-raises a job's exception; the with block terminates the pool
\* and the exception leaves start().
starmap_raise ==
    /\ pc = "starmap"
    /\ pool.left = 0
    /\ ~pool.success
    /\ pc' = "raised"
    /\ UNCHANGED <<config, shared_completion_list, rep, rep2, tasks, pool,
                   results, res, failed_i_jobs,
                   diagnostics>>

\* report_process.join() returns once the reporting process has ended.
join_report_process ==
    /\ pc = "join"
    /\ rep.pc \in {"done", "crashed"}
    /\ pc' = "check"
    /\ UNCHANGED <<config, shared_completion_list, rep, rep2, tasks, pool,
                   results, res, failed_i_jobs,
                   diagnostics>>

\* The failure scan and the return.
check_failures ==
    /\ pc = "check"
    /\ failed_i_jobs' = IF track_failures
                        THEN ScanFailures(shared_completion_list, 0)
                        ELSE failed_i_jobs
    /\ pc' = "returned"
    /\ UNCHANGED <<config, shared_completion_list, rep, rep2, tasks, pool,
                   results, res, diagnostics>>

\* --------------------------------------------------------- pool workers
\* The pool's worker processes are interchangeable: a task is "queued" until
\* one of the at most `processes` workers takes it, then its worker is about
\* to "call" the wrapper, then inside "func", and at last the task is "ended".
Busy == Cardinality({k \in 1..Len(tasks) : tasks[k] \in {"call", "func"}})

\* An idle worker takes the next task of the queue.
take_task(i_job) ==
    /\ pc = "starmap"
    /\ i_job = pool.next
    /\ i_job < NJobs
    /\ Busy < processes
    /\ tasks' = [tasks EXCEPT ![i_job + 1] = "call"]
    /\ pool' = [pool EXCEPT !.next = @ + 1]
    /\ UNCHANGED <<config, pc, shared_completion_list, rep, rep2, results, res,
                   failed_i_jobs,
                   diagnostics>>

wrapper_enter(i_job) ==
    /\ pc = "starmap"
    /\ i_job < NJobs
    /\ tasks[i_job + 1] = "call"
    /\ shared_completion_list' =
           function_wrapper_enter(shared_completion_list, i_job)
    /\ tasks' = [tasks EXCEPT ![i_job + 1] = "func"]
    /\ UNCHANGED <<config, pc, rep, rep2, pool, results, res, failed_i_jobs,
                   diagnostics>>

wrapper_finish(i_job) ==
    /\ pc = "starmap"
    /\ i_job < NJobs
    /\ tasks[i_job + 1] = "func"
    /\ LET out == fwf(shared_completion_list, i_job, p_args[i_job + 1])
       IN  /\ shared_completion_list' = out.scl
           /\ results' = IF out.exc THEN results
                         ELSE StoreResult(results, i_job, out.res)
           /\ pool' = [pool EXCEPT !.left = @ - 1,
                                   !.success = @ /\ ~out.exc,
                                   !.inorder = @ /\ (NJobs - pool.left = i_job)]
           /\ diagnostics' = diagnostics \cup out.recorded
    /\ tasks' = [tasks EXCEPT ![i_job + 1] = "ended"]
    /\ UNCHANGED <<config, pc, rep, rep2, res, failed_i_jobs>>

\* ----------------------------------------------------- reporting process
rpf_begin(r, scl) ==
    IF report_on_change
    THEN on_change_reporting_process_begin(r, scl)
    ELSE periodic_reporting_process_begin(r, scl)

rpf_loop(r, scl) ==
    IF report_on_change
    THEN on_change_reporting_process_loop(r, scl)
    ELSE periodic_reporting_process_loop(r, scl)

report_begin ==
    /\ rep.pc = "begin"
    /\ rep' = rpf_begin(rep, shared_completion_list)
    /\ UNCHANGED <<config, pc, shared_completion_list, rep2, tasks, pool,
                   results, res, failed_i_jobs,
                   diagnostics>>

report_loop ==
    /\ rep.pc = "loop"
    /\ rep' = rpf_loop(rep, shared_completion_list)
    /\ UNCHANGED <<config, pc, shared_completion_list, rep2, tasks, pool,
                   results, res, failed_i_jobs,
                   diagnostics>>

report_snapshot ==
    /\ rep.pc = "sleep"
    /\ rep' = snapshot_read(rep, shared_completion_list)
    /\ UNCHANGED <<config, pc, shared_completion_list, rep2, tasks, pool,
                   results, res, failed_i_jobs,
                   diagnostics>>

Next ==
    \/ start_build
    \/ start_report_process
    \/ start_pool
    \/ starmap_return
    \/ starmap_raise
    \/ join_report_process
    \/ check_failures
    \/ \E i \in 0..(MaxJobs - 1) : take_task(i)
    \/ \E i \in 0..(MaxJobs - 1) : wrapper_enter(i)
    \/ \E i \in 0..(MaxJobs - 1) : wrapper_finish(i)
    \/ report_begin
    \/ report_loop
    \/ report_snapshot

Spec == Init /\ [][Next]_vars

\* Processes that can take a step are scheduled by the operating system.
Fairness ==
    /\ WF_vars(start_build)
    /\ WF_vars(start_report_process)
    /\ WF_vars(start_pool)
    /\ WF_vars(starmap_return)
    /\ WF_vars(starmap_raise)
    /\ WF_vars(join_report_process)
    /\ WF_vars(check_failures)
    /\ \A i \in 0..(MaxJobs - 1) : WF_vars(take_task(i))
    /\ \A i \in 0..(MaxJobs - 1) : WF_vars(wrapper_enter(i))
    /\ \A i \in 0..(MaxJobs - 1) : WF_vars(wrapper_finish(i))
    /\ WF_vars(report_begin)
    /\ WF_vars(report_loop)
    /\ WF_vars(report_snapshot)

FairSpec == Spec /\ Fairness

\* ------------------------------------------------- invalid configurations
\* __init__ stores its arguments unchecked; start() meets an invalid one
\* where it is first used.
InvalidConfig == processes < 1 \/ report_rate <= 0

InitConfig ==
    /\ InitStart
    /\ processes \in 0..MaxProcs
    /\ report_rate \in {-1, 0, 1}
    /\ InvalidConfig
    /\ report_on_change \in BOOLEAN

\* Pool(processes=...) raises ValueError for a number below 1; the exception
\* leaves start().
pool_rejects ==
    /\ pc = "reporting"
    /\ processes < 1
    /\ pc' = "valueerror"
    /\ UNCHANGED <<config, shared_completion_list, rep, rep2, tasks, pool,
                   results, res, failed_i_jobs,
                   diagnostics>>

NextConfig ==
    \/ Next
    \/ pool_rejects

SpecConfig == InitConfig /\ [][NextConfig]_vars

\* ---------------------------------------------------- paired reporters
\* The same batch watched by a periodic reporter (rep) and an on-change
\* reporter (rep2) that wake up together and read the same slot values.
InitPair ==
    /\ InitCommon
    /\ report_on_change = FALSE

start_report_pair ==
    /\ pc = "built"
    /\ rep' = [rep EXCEPT !.pc = "begin"]
    /\ rep2' = [rep2 EXCEPT !.pc = "begin"]
    /\ pc' = "reporting"
    /\ UNCHANGED <<config, shared_completion_list, tasks, pool, results, res,
                   failed_i_jobs,
                   diagnostics>>

pair_begin ==
    /\ rep.pc = "begin"
    /\ rep' = periodic_reporting_process_begin(rep, shared_completion_list)
    /\ rep2' = on_change_reporting_process_begin(rep2, shared_completion_list)
    /\ UNCHANGED <<config, pc, shared_completion_list, tasks, pool, results,
                   res, failed_i_jobs,
                   diagnostics>>

pair_loop ==
    /\ rep.pc = "loop"
    /\ rep' = periodic_reporting_process_loop(rep, shared_completion_list)
    /\ rep2' = IF rep2.pc = "loop"
               THEN on_change_reporting_process_loop(rep2, shared_completion_list)
               ELSE rep2
    /\ UNCHANGED <<config, pc, shared_completion_list, tasks, pool, results,
                   res, failed_i_jobs,
                   diagnostics>>

pair_snapshot ==
    /\ rep.pc = "sleep"
    /\ rep' = snapshot_read(rep, shared_completion_list)
    /\ rep2' = snapshot_read(rep2, shared_completion_list)
    /\ UNCHANGED <<config, pc, shared_completion_list, tasks, pool, results,
                   res, failed_i_jobs,
                   diagnostics>>

NextPair ==
    \/ start_build
    \/ start_report_pair
    \/ start_pool
    \/ starmap_return
    \/ starmap_raise
    \/ join_report_process
    \/ check_failures
    \/ \E i \in 0..(MaxJobs - 1) : take_task(i)
    \/ \E i \in 0..(MaxJobs - 1) : wrapper_enter(i)
    \/ \E i \in 0..(MaxJobs - 1) : wrapper_finish(i)
    \/ pair_begin
    \/ pair_loop
    \/ pair_snapshot

SpecPair == InitPair /\ [][NextPair]_vars

\* -------------------------------------------------------------- typing
Statuses == {"Q", "R", "S", "F"}

TypeOK ==
    /\ pc \in {"new", "built", "reporting", "valueerror", "starmap", "raised",
               "join", "check", "returned"}
    /\ \A k \in 1..Len(shared_completion_list) :
           shared_completion_list[k] \in Statuses
    /\ rep.pc \in {"off", "begin", "loop", "sleep", "done", "crashed"}
    /\ pool.left \in 0..MaxJobs

\* ---------------------------------------------------------------- claims
AllTerminal == \A k \in 1..Len(shared_completion_list) :
                   Terminal(shared_completion_list[k])

\* Outcome of job i_job as the caller sees it: the function's value, or the
\* absent value when the function raised.
Outcome(i_job) ==
    IF FuncRaises(p_args[i_job + 1]) THEN None ELSE func(p_args[i_job + 1])

RaisingJobs == {i \in i_jobs : FuncRaises(p_args[i + 1])}

LegalStep(a, b) ==
    \/ a = b
    \/ a = "Q" /\ b = "R"
    \/ a = "R" /\ b \in {"S", "F"}

\* C1: every slot starts Queued and only ever moves Queued -> Running ->
\* Succeeded or Failed; it never moves back, never skips Running and never
\* changes once it is terminal, and the list keeps its length.
C1_SlotsMoveForward ==
    [][ IF pc = "new"
        THEN \A k \in 1..Len(shared_completion_list') :
                 shared_completion_list'[k] = "Q"
        ELSE /\ Len(shared_completion_list') = Len(shared_completion_list)
             /\ \A k \in 1..Len(shared_completion_list) :
                    LegalStep(shared_completion_list[k],
                              shared_completion_list'[k]) ]_vars

\* A batch in which one slot went all the way to Succeeded and another to Failed.
C1_Witness ==
    /\ \E k \in 1..Len(shared_completion_list) : shared_completion_list[k] = "S"
    /\ \E k \in 1..Len(shared_completion_list) : shared_completion_list[k] = "F"

\* C2: a returned result list has the length of the argument list and its
\* i-th entry is the outcome of the job run on the i-th argument, whatever
\* the order in which the workers finished.
C2_ResultsInSubmissionOrder ==
    pc = "returned" =>
        /\ Len(res) = Len(p_args)
        /\ \A i \in i_jobs : res[i + 1] = Outcome(i)

\* start() returned two different results although job 1 ended before job 0.
C2_Witness ==
    /\ pc = "returned"
    /\ Len(res) = 2
    /\ res[1] # res[2]
    /\ ~pool.inorder

\* C3: with track_failures the run is never aborted by a raising job, and on
\* return failed_i_jobs holds exactly the indices of the jobs that raised.
C3_FailureSetIsExact ==
    track_failures =>
        /\ pc # "raised"
        /\ pc = "returned" => SeqRange(failed_i_jobs) = RaisingJobs

\* An isolating run that returned with one failed and one succeeded job.
C3_Witness ==
    /\ track_failures
    /\ pc = "returned"
    /\ RaisingJobs # {}
    /\ RaisingJobs # i_jobs
    /\ SeqRange(failed_i_jobs) = RaisingJobs

\* C4: with track_failures the run always completes, and the list it
\* returns is full length, holds the absent value for every job whose slot
\* is Failed and the function's value for every job whose slot is Succeeded.
C4_IsolatingRunCompletes ==
    /\ [](track_failures /\ pc = "returned" =>
             /\ Len(res) = Len(p_args)
             /\ \A i \in i_jobs :
                    /\ shared_completion_list[i + 1] \in {"S", "F"}
                    /\ shared_completion_list[i + 1] = "F" => res[i + 1] = None
                    /\ shared_completion_list[i + 1] = "S" =>
                           res[i + 1] = func(p_args[i + 1]))
    /\ <>(track_failures => pc = "returned")

\* An isolating run that returned an absent entry next to a computed one.
C4_Witness ==
    /\ track_failures
    /\ pc = "returned"
    /\ \E i \in i_jobs : shared_completion_list[i + 1] = "F" /\ res[i + 1] = None
    /\ \E i \in i_jobs : shared_completion_list[i + 1] = "S" /\ res[i + 1] # None

StrictRaising == ~track_failures /\ RaisingJobs # {}
StrictClean == ~track_failures /\ RaisingJobs = {}

\* C5: without track_failures, a batch in which some job raises ends with
\* start() propagating the failure and returning no result list, and a batch
\* in which no job raises ends with start() returning normally.
C5_StrictModeFailsFast ==
    /\ [](StrictRaising => pc # "returned" /\ res = <<>>)
    /\ [](StrictClean => pc # "raised")
    /\ <>(StrictRaising => pc = "raised")
    /\ <>(StrictClean => pc = "returned")

\* A strict run that failed although another of its jobs had succeeded.
C5_Witness ==
    /\ ~track_failures
    /\ pc = "raised"
    /\ \E k \in 1..Len(shared_completion_list) : shared_completion_list[k] = "S"

\* C6: every slot eventually reaches a terminal status in both modes: once
\* the pool has drained (starmap has returned or raised, so no worker will
\* write again) no slot is left Queued or Running.
C6_EverySlotEndsTerminal ==
    pc \in {"raised", "join", "check", "returned"} => AllTerminal

\* C7: the reporting process ends by itself in every run: it eventually
\* stops looping, so a join of it never waits forever.
C7_ReporterEnds == <>(rep.pc \in {"done", "crashed"})

\* C8: with no jobs start() returns an empty list and the reporter ends
\* normally after exactly one report, of 100%, without having slept.
C8_EmptyBatchReportsOnce ==
    (NJobs = 0 /\ pc = "returned") =>
        /\ res = <<>>
        /\ rep.pc = "done"
        /\ rep.n_reports = 1
        /\ rep.last.error = "" /\ rep.last.percent = 10000 /\ rep.last.total = 0
        /\ rep.sleeps = 0

\* C9: a periodic reporter of at least one job that has seen every slot
\* terminal and finished printed a 100% report last.
C9_PeriodicFinalReportIsComplete ==
    (~report_on_change /\ NJobs >= 1 /\ rep.pc = "done") =>
        rep.last.error = "" /\ rep.last.percent = 10000

\* C10: watching the same batch with the same wake-ups, the on-change
\* reporter prints no more reports than the periodic one and both end with
\* the same report, which shows the terminal state.
C10_OnChangeRefinesPeriodic ==
    (rep.pc = "done" /\ rep2.pc \in {"done", "crashed"}) =>
        /\ rep2.n_reports <= rep.n_reports
        /\ rep2.last = rep.last
        /\ rep.last.error = "" /\ rep.last.percent = 10000

\* C11: producing a report never divides by zero: no report computation
\* raises an arithmetic error, the estimate printed is the unknown marker
\* when no job has completed and elapsed / completed * remaining otherwise.
C11_ReportNeverDividesByZero ==
    /\ rep.pc = "crashed" => SleepPeriodFails \/ SleepFails
    /\ rep.n_reports > 0 =>
           /\ rep.last.error = ""
           /\ rep.last.completed = 0 => rep.last.est_time_left = NaN
           /\ rep.last.completed > 0 =>
                  rep.last.est_time_left =
                      EstTimeLeft(rep.last.time_passed, rep.last.completed,
                                  rep.last.total - rep.last.completed)

JobsTouched ==
    \/ \E k \in 1..Len(shared_completion_list) : shared_completion_list[k] # "Q"
    \/ \E k \in 1..Len(tasks) : tasks[k] # "queued"

\* C12: with an invalid configuration no reporting process is started, no
\* slot leaves Queued and no job function is invoked.
C12_InvalidConfigRejectedFirst ==
    InvalidConfig => rep.pc = "off" /\ ~JobsTouched

\* The step printed a report.
PrintedNow == rep'.n_reports # rep.n_reports \/ rep'.last # rep.last

\* C13: the on-change reporter prints its initial report exactly once; at
\* the loop test after a wake-up it prints exactly when the terminal slots
\* of the new snapshot differ from those of the snapshot before it and the
\* new snapshot is not all terminal; a wake-up that saw only Queued ->
\* Running changes prints nothing.  (While the reporter sleeps and reads,
\* done_list_prev is the snapshot taken before the one being read.)
C13_OnChangePrintsOnChange ==
    [][ report_on_change =>
          /\ (rep.pc = "begin" /\ rep'.pc # "begin") =>
                 rep.n_reports = 0 /\ rep'.n_reports = 1
          /\ (rep.pc = "loop" /\ rep'.pc # "loop") =>
                 (PrintedNow <=> /\ rep.done_list # rep.done_list_prev
                                 /\ ~All(rep.done_list))
          /\ rep.pc \in {"sleep", "done"} => ~PrintedNow
          /\ rep'.pc = "sleep" => rep'.done_list_prev = rep'.done_list
      ]_vars

\* C14: the reporter declares the batch finished only when every slot of
\* the shared list is Succeeded or Failed, although it reads the slots one
\* at a time while the workers write.
C14_FinishedOnlyWhenAllTerminal ==
    rep.pc = "done" =>
        \A k \in 1..Len(shared_completion_list) :
            shared_completion_list[k] \in {"S", "F"}

\* The reporter finished a batch of two jobs while starmap was still
\* collecting the results.
C14_Witness ==
    /\ rep.pc = "done"
    /\ NJobs >= 2
    /\ pc = "starmap"

\* C15: from the start of the reporter until the jobs are submitted the
\* shared list has one slot per job, all Queued, and it is all terminal
\* only if there is no job.
C15_StartsAllQueued ==
    pc \in {"built", "reporting"} =>
        /\ Len(shared_completion_list) = Len(p_args)
        /\ \A k \in 1..Len(shared_completion_list) :
               shared_completion_list[k] = "Q"
        /\ AllTerminal <=> Len(p_args) = 0

\* The reporter is already polling two queued slots before the pool exists.
C15_Witness ==
    /\ pc = "reporting"
    /\ rep.pc = "sleep"
    /\ Len(shared_completion_list) = 2

TaskForward(a, b) ==
    \/ a = b
    \/ a = "queued" /\ b = "call"
    \/ a = "call" /\ b = "func"
    \/ a = "func" /\ b = "ended"

\* C16: once the shared list exists, a slot is changed only by a step of
\* the one wrapper invocation that runs its job, which changes no other
\* slot; every job is run by a single invocation; and no step of the
\* reporter or of start() itself changes a slot or the length of the list.
C16_SingleWriterPerSlot ==
    [][ pc # "new" =>
          /\ Len(shared_completion_list') = Len(shared_completion_list)
          /\ \A k \in 1..Len(shared_completion_list) :
                 shared_completion_list'[k] # shared_completion_list[k] =>
                     /\ tasks[k] \in {"call", "func"}
                     /\ tasks'[k] # tasks[k]
                     /\ \A j \in (1..Len(shared_completion_list)) \ {k} :
                            /\ shared_completion_list'[j] = shared_completion_list[j]
                            /\ tasks'[j] = tasks[j]
          /\ Len(tasks) > 0 =>
                 /\ Len(tasks') = Len(tasks)
                 /\ \A k \in 1..Len(tasks) : TaskForward(tasks[k], tasks'[k])
          /\ (rep' # rep \/ pc' # pc \/ failed_i_jobs' # failed_i_jobs) =>
                 shared_completion_list' = shared_completion_list
      ]_vars

\* Two wrapper invocations have each written their own slot.
C16_Witness ==
    /\ Len(shared_completion_list) = 2
    /\ shared_completion_list[1] = "R"
    /\ shared_completion_list[2] = "R"
    /\ tasks[1] = "func"
    /\ tasks[2] = "func"

ReporterStartedFirst ==
    pc \in {"starmap", "raised", "join", "check", "returned"} => rep.pc # "off"

\* The one report printed so far by the on-change reporter.
FirstOnChangeReport == report_on_change /\ rep.n_reports = 1

FailedSlots == {i \in i_jobs : shared_completion_list[i + 1] = "F"}

\* C18: with track_failures, once the wrapper of a raising job has returned
\* its slot is Failed, a diagnostic naming the job is on record and the
\* job's result is the absent value; there are as many diagnostics as
\* failed jobs.
C18_FailureIsRecorded ==
    (track_failures /\ pc = "starmap") =>
        /\ \A i \in i_jobs :
               (tasks[i + 1] = "ended" /\ FuncRaises(p_args[i + 1])) =>
                   /\ shared_completion_list[i + 1] = "F"
                   /\ results[i + 1] = None
                   /\ \E d \in diagnostics : d.i_job = i
        /\ Cardinality(diagnostics) = Cardinality(FailedSlots)

\* C19: every printed report is taken from one snapshot: the number of
\* completed jobs behind its percentage is the number of S and F symbols
\* in the list it renders.
C19_ReportFromOneSnapshot ==
    rep.n_reports > 0 =>
        rep.last.completed =
            Cardinality({k \in 1..Len(rep.last.list) :
                             rep.last.list[k] \in {"S", "F"}})

\* C20: at most `processes` slots are Running at any time, in both modes.
C20_RunningWithinPool ==
    Cardinality({k \in 1..Len(shared_completion_list) :
                     shared_completion_list[k] = "R"}) <= processes

====
